---- MODULE Spec2Model ----
(***************************************************************************)
(* A model of alectryon's command-line driver (alectryon/cli.py): the      *)
(* partitioning of annotated fragments into whitespace-delimited runs, the *)
(* JSON encoding of fragments, and main's loop over the input files.       *)
(*                                                                         *)
(* Python values are tagged records:                                       *)
(*   [t |-> "str",  v |-> <<c1, ..., cn>>]   a string, one character each  *)
(*   [t |-> "none", v |-> <<>>]              None                          *)
(*   [t |-> "list", v |-> <<x1, ..., xn>>]   a list                        *)
(*   [t |-> "dict", v |-> [k1 |-> x1, ...]]  a dict with string keys       *)
(*   [t |-> "namedtuple", cls, fields, vals] an instance of a namedtuple   *)
(*                                           class of core.py              *)
(***************************************************************************)
EXTENDS Naturals, Sequences, FiniteSets, TLC

VARIABLES
    \* partition_fragments: its argument, the position of the for loop,
    \* the local list `partitioned`, and where the call stands
    fragments, idx, partitioned, ppc,
    \* write_json / read_input: the object given to the writer, the result of
    \* prepare_json, the text of the .io.json file as a JSON document, the
    \* value json.load returns for it, and where the pipeline stands
    obj, encoded, jsonfile, loaded, cpc,
    \* main: the command line (input paths, --writer, --debug), the state of
    \* the files named on it, args.input as built by argparse, the position
    \* of main's loop, the calls made so far and the outcome of the run
    argv, writer, debug, disk, inputs, unit, annotated, calls, outfiles, outcome, mpc

pvars == <<fragments, idx, partitioned, ppc>>
cvars == <<obj, encoded, jsonfile, loaded, cpc>>
mvars == <<argv, writer, debug, disk, inputs, unit, annotated, calls, outfiles, outcome, mpc>>
vars == <<pvars, cvars, mvars>>

-----------------------------------------------------------------------------
(* Bounds of the model *)

\* longest content of a generated CoqText fragment, in characters
MaxLen == 2
\* longest generated chunk given to partition_fragments, in fragments
MaxFrags == 2
\* most hypotheses of a generated goal, most goals of a generated sentence
MaxHyps == 1
MaxGoals == 2
\* most input files of a run, most chunks of a .json input file
MaxUnits == 2
MaxChunks == 2

-----------------------------------------------------------------------------
(* Python values *)

Str(s) == [t |-> "str", v |-> s]
None == [t |-> "none", v |-> <<>>]
List(xs) == [t |-> "list", v |-> xs]
Dict(d) == [t |-> "dict", v |-> d]

\* the namedtuple classes of core.py, as cli.py imports them
CoqText(string) ==
    [t |-> "namedtuple", cls |-> "CoqText",
     fields |-> <<"string">>, vals |-> <<string>>]
CoqHypothesis(names, body, type) ==
    [t |-> "namedtuple", cls |-> "CoqHypothesis",
     fields |-> <<"names", "body", "type">>, vals |-> <<names, body, type>>]
CoqGoal(name, conclusion, hypotheses) ==
    [t |-> "namedtuple", cls |-> "CoqGoal",
     fields |-> <<"name", "conclusion", "hypotheses">>,
     vals |-> <<name, conclusion, hypotheses>>]
CoqSentence(sentence, responses, goals) ==
    [t |-> "namedtuple", cls |-> "CoqSentence",
     fields |-> <<"sentence", "responses", "goals">>,
     vals |-> <<sentence, responses, goals>>]

\* isinstance(x, cls) for a namedtuple class
IsInstance(x, cls) == x.t = "namedtuple" /\ x.cls = cls

\* x.<name> for a namedtuple x
GetField(x, name) ==
    x.vals[CHOOSE i \in 1..Len(x.fields) : x.fields[i] = name]

\* x._replace(<name>=val)
Replace(x, name, val) ==
    [x EXCEPT !.vals =
        [i \in 1..Len(x.fields) |-> IF x.fields[i] = name THEN val ELSE x.vals[i]]]

-----------------------------------------------------------------------------
(* COQ_SPLIT_RE = re.compile(r"(?:[ \t]*\n){2,}") and its match() *)

\* [ \t]* read greedily from position i of s: the position after it
RECURSIVE SkipHSpace(_, _)
SkipHSpace(s, i) ==
    IF i <= Len(s) /\ s[i] \in {" ", "\t"} THEN SkipHSpace(s, i + 1) ELSE i

\* one (?:[ \t]*\n) from position i: the position after it, 0 when it fails.
\* A shorter [ \t]* cannot help: the characters given back are no line breaks.
MatchGroup(s, i) ==
    LET j == SkipHSpace(s, i)
    IN IF j <= Len(s) /\ s[j] = "\n" THEN j + 1 ELSE 0

\* greedy repetition of the group from position i, n groups matched so far
RECURSIVE MatchGroups(_, _, _)
MatchGroups(s, i, n) ==
    LET j == MatchGroup(s, i)
    IN IF j = 0 THEN [pos |-> i, n |-> n] ELSE MatchGroups(s, j, n + 1)

\* the regular expression tried at position i of s: {2,} needs two groups
MatchAt(s, i) ==
    LET r == MatchGroups(s, i, 0)
    IN IF r.n >= 2 THEN [matched |-> TRUE, end |-> r.pos - 1]
       ELSE [matched |-> FALSE, end |-> 0]

\* COQ_SPLIT_RE.search(s): the leftmost match anywhere in s
RECURSIVE SearchFrom(_, _)
SearchFrom(s, i) ==
    IF i > Len(s) THEN [matched |-> FALSE, end |-> 0]
    ELSE IF MatchAt(s, i).matched THEN MatchAt(s, i)
    ELSE SearchFrom(s, i + 1)
COQ_SPLIT_RE_search(s) == SearchFrom(s, 1)

\* the expression with {1,} in place of {2,}
COQ_SPLIT_RE_match_one(s) ==
    LET r == MatchGroups(s, 1, 0)
    IN IF r.n >= 1 THEN [matched |-> TRUE, end |-> r.pos - 1]
       ELSE [matched |-> FALSE, end |-> 0]

\* COQ_SPLIT_RE.match(s): anchored at the start of s; m.end() is the number
\* of characters matched
COQ_SPLIT_RE_match(s) == MatchAt(s, 1)

-----------------------------------------------------------------------------
(* partition_fragments *)

\* partitioned[-1].append(fragment)
AppendToLast(p, fragment) ==
    [p EXCEPT ![Len(p)] = Append(p[Len(p)], fragment)]

\* s[n:] for n <= len(s)
StrFrom(s, n) == [t |-> "str", v |-> SubSeq(s.v, n + 1, Len(s.v))]

\* a body that opens a new run at every separator, also after an empty one
LoopBodyAlwaysOpens(p, fragment) ==
    IF IsInstance(fragment, "CoqText")
       /\ COQ_SPLIT_RE_match(GetField(fragment, "string").v).matched
    THEN LET m == COQ_SPLIT_RE_match(GetField(fragment, "string").v)
             trimmed == Replace(fragment, "string",
                                StrFrom(GetField(fragment, "string"), m.end))
         IN IF GetField(trimmed, "string").v = <<>> THEN Append(p, <<>>)
            ELSE AppendToLast(Append(p, <<>>), trimmed)
    ELSE AppendToLast(p, fragment)

\* a body that appends the separator untrimmed
LoopBodyKeepsBlank(p, fragment) ==
    IF IsInstance(fragment, "CoqText")
       /\ COQ_SPLIT_RE_match(GetField(fragment, "string").v).matched
    THEN AppendToLast(IF p[Len(p)] # <<>> THEN Append(p, <<>>) ELSE p, fragment)
    ELSE AppendToLast(p, fragment)

\* one iteration of the for loop (lines 53-61) on the list p
LoopBody(p, fragment) ==
    IF IsInstance(fragment, "CoqText")
    THEN LET m == COQ_SPLIT_RE_match(GetField(fragment, "string").v)
         IN IF m.matched
            THEN LET p1 == IF p[Len(p)] # <<>> THEN Append(p, <<>>) ELSE p
                     trimmed == Replace(fragment, "string",
                                        StrFrom(GetField(fragment, "string"), m.end))
                 IN IF GetField(trimmed, "string").v = <<>>
                    THEN p1                       \* continue
                    ELSE AppendToLast(p1, trimmed)
            ELSE AppendToLast(p, fragment)
    ELSE AppendToLast(p, fragment)

\* the whole function: the loop run from [[]] over fragments
RECURSIVE RunLoop(_, _, _)
RunLoop(p, fs, i) ==
    IF i > Len(fs) THEN p ELSE RunLoop(LoopBody(p, fs[i]), fs, i + 1)
partition_fragments(fs) == RunLoop(<< <<>> >>, fs, 1)

-----------------------------------------------------------------------------
(* The chunks partition_fragments is run on *)

\* a line break, a horizontal blank and any other character
Chars == {"\n", " ", "x"}

Strings(n) == UNION {[1..k -> Chars] : k \in 0..n}

\* a sentence without goals: Sentence("tactic.", goals=[])
TacticSentence ==
    CoqSentence(Str(<<"t", "a", "c", "t", "i", "c", ".">>), List(<<>>), List(<<>>))

Fragments == {CoqText(Str(s)) : s \in Strings(MaxLen)} \cup {TacticSentence}

Chunks == UNION {[1..k -> Fragments] : k \in 0..MaxFrags}

\* "Intro.\n\n\nStep one."
IntroStepOne ==
    <<"I", "n", "t", "r", "o", ".", "\n", "\n", "\n",
      "S", "t", "e", "p", " ", "o", "n", "e", ".">>
StepOne == <<"S", "t", "e", "p", " ", "o", "n", "e", ".">>

\* the chunk of scenario A, and the same text cut before the blank run
ScenarioA == <<CoqText(Str(IntroStepOne)), TacticSentence>>
ScenarioACut ==
    <<CoqText(Str(SubSeq(IntroStepOne, 1, 6))),
      CoqText(Str(SubSeq(IntroStepOne, 7, Len(IntroStepOne)))),
      TacticSentence>>

\* a chunk that starts with a blank run made of tabs, spaces and line breaks
LeadingBlankRun ==
    <<CoqText(Str(<<" ", "\t", "\n", "\t", "\n", "x">>)), TacticSentence>>
\* two separators in direct succession after content
SuccessiveSeparators ==
    <<TacticSentence, CoqText(Str(<<"\n", "\n">>)),
      CoqText(Str(<<"\n", " ", "\n", "x">>)), TacticSentence>>
\* a separator inside the chunk and a blank run as its last fragment
TrailingSeparator ==
    <<CoqText(Str(<<"x">>)), CoqText(Str(<<"\n", "\n", "x">>)), TacticSentence,
      CoqText(Str(<<"\n", "\t", "\n", "\n">>))>>

Examples ==
    {ScenarioA, ScenarioACut, LeadingBlankRun, SuccessiveSeparators, TrailingSeparator}

PInit ==
    /\ fragments \in Chunks \cup Examples
    /\ idx = 1
    /\ partitioned = << <<>> >>
    /\ ppc = "loop"
    \* the codec and main are not in use
    /\ obj = "-" /\ encoded = "-" /\ jsonfile = "-" /\ loaded = "-" /\ cpc = "-"
    /\ argv = "-" /\ writer = "-" /\ debug = "-" /\ disk = "-" /\ inputs = "-"
    /\ unit = "-" /\ annotated = "-" /\ calls = "-" /\ outfiles = "-"
    /\ outcome = "-" /\ mpc = "-"

\* one iteration of `for fragment in fragments`
PIterate ==
    /\ ppc = "loop"
    /\ idx <= Len(fragments)
    /\ partitioned' = LoopBody(partitioned, fragments[idx])
    /\ idx' = idx + 1
    /\ UNCHANGED <<fragments, ppc, cvars, mvars>>

\* return partitioned
PReturn ==
    /\ ppc = "loop"
    /\ idx > Len(fragments)
    /\ ppc' = "done"
    /\ UNCHANGED <<fragments, idx, partitioned, cvars, mvars>>

PNext == PIterate \/ PReturn

SpecPartition == PInit /\ [][PNext]_vars

-----------------------------------------------------------------------------
(* prepare_json, and the JSON file write_json writes and read_input reads *)

\* COQ_TYPES: isinstance(x, COQ_TYPES)
COQ_TYPES == {"CoqSentence", "CoqGoal", "CoqHypothesis", "CoqText"}

COQ_TYPE_NAMES ==
    [CoqHypothesis |-> Str(<<"h", "y", "p", "o", "t", "h", "e", "s", "i", "s">>),
     CoqGoal |-> Str(<<"g", "o", "a", "l">>),
     CoqSentence |-> Str(<<"s", "e", "n", "t", "e", "n", "c", "e">>),
     HTMLSentence |-> Str(<<"h", "t", "m", "l", "_", "s", "e", "n", "t", "e", "n", "c", "e">>),
     CoqText |-> Str(<<"t", "e", "x", "t">>)]

FieldSet(x) == {x.fields[i] : i \in 1..Len(x.fields)}

RECURSIVE prepare_json(_)

\* prepare_json without the recursive calls on the fields of a fragment
prepare_json_shallow(x) ==
    IF x.t = "list"
    THEN List([i \in 1..Len(x.v) |-> prepare_json(x.v[i])])
    ELSE IF x.t = "dict"
    THEN Dict([k \in DOMAIN x.v |-> prepare_json(x.v[k])])
    ELSE IF x.t = "namedtuple" /\ x.cls \in COQ_TYPES
    THEN Dict([k \in {"_type"} \cup FieldSet(x) |->
                 IF k \in FieldSet(x) THEN GetField(x, k)
                 ELSE COQ_TYPE_NAMES[x.cls]])
    ELSE x

\* prepare_json without the branch for fragments
prepare_json_plain(x) ==
    IF x.t = "list"
    THEN List([i \in 1..Len(x.v) |-> prepare_json(x.v[i])])
    ELSE IF x.t = "dict"
    THEN Dict([k \in DOMAIN x.v |-> prepare_json(x.v[k])])
    ELSE x

prepare_json(x) ==
    IF x.t = "list"
    THEN List([i \in 1..Len(x.v) |-> prepare_json(x.v[i])])
    ELSE IF x.t = "dict"
    THEN Dict([k \in DOMAIN x.v |-> prepare_json(x.v[k])])
    ELSE IF x.t = "namedtuple" /\ x.cls \in COQ_TYPES
    THEN \* {"_type": nm, **d}: an entry of d named "_type" would replace nm
         Dict([k \in {"_type"} \cup FieldSet(x) |->
                 IF k \in FieldSet(x) THEN prepare_json(GetField(x, k))
                 ELSE COQ_TYPE_NAMES[x.cls]])
    ELSE x

\* JSON documents: [j |-> "array" | "object" | "string" | "null", v |-> ...]

\* json.dump(x, out, indent=4): lists and tuples (a namedtuple is a tuple) are
\* written as arrays, dicts as objects, str as strings, None as null
RECURSIVE json_dump(_)
json_dump(x) ==
    IF x.t = "list"
    THEN [j |-> "array", v |-> [i \in 1..Len(x.v) |-> json_dump(x.v[i])]]
    ELSE IF x.t = "namedtuple"
    THEN [j |-> "array", v |-> [i \in 1..Len(x.vals) |-> json_dump(x.vals[i])]]
    ELSE IF x.t = "dict"
    THEN [j |-> "object", v |-> [k \in DOMAIN x.v |-> json_dump(x.v[k])]]
    ELSE IF x.t = "str"
    THEN [j |-> "string", v |-> x.v]
    ELSE [j |-> "null", v |-> <<>>]

\* json.load(src): arrays are read as lists, objects as dicts
RECURSIVE json_load(_)
json_load(d) ==
    IF d.j = "array"
    THEN List([i \in 1..Len(d.v) |-> json_load(d.v[i])])
    ELSE IF d.j = "object"
    THEN Dict([k \in DOMAIN d.v |-> json_load(d.v[k])])
    ELSE IF d.j = "string"
    THEN Str(d.v)
    ELSE None

-----------------------------------------------------------------------------
(* The objects the codec is run on *)

SeqsUpTo(S, n) == UNION {[1..k -> S] : k \in 0..n}

Hypotheses ==
    {CoqHypothesis(List(<<Str(<<"H">>)>>), b, Str(<<"P">>)) : b \in {None, Str(<<"d">>)}}
Goals ==
    {CoqGoal(Str(<<"1">>), Str(<<"c">>), List(hs)) : hs \in SeqsUpTo(Hypotheses, MaxHyps)}
Sentences ==
    {CoqSentence(Str(<<"s", ".">>), List(<<>>), List(gs)) : gs \in SeqsUpTo(Goals, MaxGoals)}
Texts == {CoqText(Str(s)) : s \in {<<>>, <<"\n", "x">>}}

AllFragments == Hypotheses \cup Goals \cup Sentences \cup Texts

\* bare fragments; chunk sequences (lists of lists of fragments); fragments
\* inside a mapping; values without any fragment
Objects ==
    AllFragments
    \cup {List(<<>>), List(<< List(<<>>) >>)}
    \cup {List(<< List(<<f>>) >>) : f \in Sentences \cup Texts}
    \cup {List(<< List(<<tx, se>>), List(<<tx>>) >>) : tx \in Texts, se \in Sentences}
    \cup {Dict([chunk |-> List(<<f>>), name |-> Str(<<"f">>)]) : f \in Sentences \cup Texts}
    \cup {None, Str(<<"x">>), List(<<Str(<<"x">>), None>>), Dict([k |-> Str(<<"x">>)])}

CInit ==
    /\ obj \in Objects
    /\ encoded = None
    /\ jsonfile = [j |-> "null", v |-> <<>>]
    /\ loaded = None
    /\ cpc = "start"
    \* partition_fragments and main are not in use
    /\ fragments = "-" /\ idx = "-" /\ partitioned = "-" /\ ppc = "-"
    /\ argv = "-" /\ writer = "-" /\ debug = "-" /\ disk = "-" /\ inputs = "-"
    /\ unit = "-" /\ annotated = "-" /\ calls = "-" /\ outfiles = "-"
    /\ outcome = "-" /\ mpc = "-"

\* write_json: json.dump(prepare_json(annotated), out, indent=4)
write_json ==
    /\ cpc = "start"
    /\ encoded' = prepare_json(obj)
    /\ jsonfile' = json_dump(prepare_json(obj))
    /\ cpc' = "written"
    /\ UNCHANGED <<obj, loaded, pvars, mvars>>

\* read_input on a .json file: json.load(src)
read_json ==
    /\ cpc = "written"
    /\ loaded' = json_load(jsonfile)
    /\ cpc' = "loaded"
    /\ UNCHANGED <<obj, encoded, jsonfile, pvars, mvars>>

CNext == write_json \/ read_json

SpecCodec == CInit /\ [][CNext]_vars

-----------------------------------------------------------------------------
(* read_input, parse_arguments and main *)

\* an input path is [id, ext]: its file name is the pair, fname = id + ext.
\* The file at that path is [state, nchunks]: "ok", "missing" (open fails) or
\* "malformed" (its text cannot be decoded); a .json file that is ok holds a
\* list of nchunks chunks.
Extensions == {".v", ".json", ".txt"}
FileStates == {"ok", "missing", "malformed"}

fname(path) == <<path.id, path.ext>>

\* a read_input that gives every unit the splitting post-processor
read_input_always_splits(path, file) ==
    IF file.state = "missing" THEN [raised |-> "FileNotFoundError", value |-> <<>>]
    ELSE IF path.ext \in {".v", ".json"}
    THEN IF file.state = "malformed" THEN [raised |-> "ValueError", value |-> <<>>]
         ELSE [raised |-> "none",
               value |-> <<[fname |-> fname(path),
                            chunks |-> [i \in 1..(IF path.ext = ".v" THEN 1 ELSE file.nchunks) |-> "src"],
                            pp |-> "split_single_chunk"]>>]
    ELSE [raised |-> "ArgumentTypeError", value |-> <<>>]

\* a read_input that takes a file of any other extension as plain Coq code
read_input_any_extension(path, file) ==
    IF file.state = "missing" THEN [raised |-> "FileNotFoundError", value |-> <<>>]
    ELSE IF path.ext = ".json"
    THEN IF file.state = "malformed" THEN [raised |-> "ValueError", value |-> <<>>]
         ELSE [raised |-> "none",
               value |-> <<[fname |-> fname(path),
                            chunks |-> [i \in 1..file.nchunks |-> "src"],
                            pp |-> "identity"]>>]
    ELSE IF file.state = "malformed" THEN [raised |-> "ValueError", value |-> <<>>]
    ELSE [raised |-> "none",
          value |-> <<[fname |-> fname(path), chunks |-> <<"src">>,
                       pp |-> "split_single_chunk"]>>]

\* read_input(fpath): the exception it raises, or the triple it returns
\* (in a one-element sequence). open() comes first, then the extension.
read_input(path, file) ==
    IF file.state = "missing"
    THEN [raised |-> "FileNotFoundError", value |-> <<>>]        \* open(fpath)
    ELSE IF path.ext = ".v"
    THEN IF file.state = "malformed"
         THEN [raised |-> "ValueError", value |-> <<>>]          \* src.read()
         ELSE [raised |-> "none",
               value |-> <<[fname |-> fname(path), chunks |-> <<"src">>,
                            pp |-> "split_single_chunk"]>>]
    ELSE IF path.ext = ".json"
    THEN IF file.state = "malformed"
         THEN [raised |-> "ValueError", value |-> <<>>]          \* json.load(src)
         ELSE [raised |-> "none",
               value |-> <<[fname |-> fname(path),
                            chunks |-> [i \in 1..file.nchunks |-> "src"],
                            pp |-> "identity"]>>]
    ELSE [raised |-> "ArgumentTypeError", value |-> <<>>]

\* how argparse ends the run when the type= callable raises for argument k:
\* ArgumentTypeError, TypeError and ValueError become a usage error (exit
\* status 2) naming the argument; anything else leaves parse_args as it is
ArgparseFailure(exc, k) ==
    IF exc \in {"ArgumentTypeError", "ValueError"}
    THEN [status |-> "exit2", exc |-> exc, unit |-> k]
    ELSE [status |-> "raised", exc |-> exc, unit |-> k]

\* split_single_chunk(chunks): [ok, value]; ok is FALSE when the assert fails
split_single_chunk(chunks) ==
    IF Len(chunks) = 1
    THEN [ok |-> TRUE, value |-> partition_fragments(chunks[1])]
    ELSE [ok |-> FALSE, value |-> <<>>]

\* pp(chunks) for the pp read_input returned
ApplyPP(pp, chunks) ==
    IF pp = "split_single_chunk" THEN split_single_chunk(chunks)
    ELSE [ok |-> TRUE, value |-> chunks]                 \* lambda chunks: chunks

\* the file a writer creates for fpath: write_json "{}.io.json", write_html
\* "{}.snippets.html", write_webpage "{}.html"
WRITERS ==
    [json |-> ".io.json", html |-> ".snippets.html", webpage |-> ".html"]

\* an except clause inside the loop that goes on with the next unit
HandleValueErrorContinues(dbg, u) ==
    [mpc |-> "loop", unit |-> u + 1,
     outcome |-> [status |-> "running", exc |-> "none", unit |-> 0]]

\* `except ValueError as e` around the loop, for the failure at unit u
HandleValueError(dbg, u) ==
    IF dbg
    THEN [mpc |-> "done", unit |-> u,
          outcome |-> [status |-> "raised", exc |-> "ValueError", unit |-> u]]
    ELSE [mpc |-> "done", unit |-> u,
          outcome |-> [status |-> "exit1", exc |-> "ValueError", unit |-> u]]

\* what annotate may return for a chunk: the oracle's fragments
NoSeparator == <<CoqText(Str(<<"x", "\n">>)), TacticSentence>>
AnnotatedChunks == {NoSeparator, TrailingSeparator}

Running == [status |-> "running", exc |-> "none", unit |-> 0]

Paths == [id : 1..MaxUnits, ext : Extensions]
Files == [state : FileStates, nchunks : 0..MaxChunks]

MInit ==
    /\ \E n \in 1..MaxUnits :
          /\ argv \in [1..n -> Paths]
          /\ disk \in [1..n -> Files]
          /\ \A k \in 1..n :
                /\ argv[k].id = k
                /\ (argv[k].ext # ".json" \/ disk[k].state # "ok") => disk[k].nchunks = 0
    /\ writer \in DOMAIN WRITERS
    /\ debug \in BOOLEAN
    /\ inputs = <<>>
    /\ unit = 0
    /\ annotated = <<>>
    /\ calls = <<>>
    /\ outfiles = {}
    /\ outcome = Running
    /\ mpc = "parse"
    \* the step-by-step partition_fragments and the codec are not in use
    /\ fragments = "-" /\ idx = "-" /\ partitioned = "-" /\ ppc = "-"
    /\ obj = "-" /\ encoded = "-" /\ jsonfile = "-" /\ loaded = "-" /\ cpc = "-"

\* parse_args converts the next input argument with read_input
parse_input ==
    /\ mpc = "parse"
    /\ Len(inputs) < Len(argv)
    /\ LET k == Len(inputs) + 1
           r == read_input(argv[k], disk[k])
       IN /\ r.raised = "none"
          /\ inputs' = inputs \o r.value
    /\ UNCHANGED <<argv, writer, debug, disk, unit, annotated, calls, outfiles,
                   outcome, mpc, pvars, cvars>>

\* read_input raises for the next input argument: the run ends in parse_args
parse_input_raises ==
    /\ mpc = "parse"
    /\ Len(inputs) < Len(argv)
    /\ LET k == Len(inputs) + 1
           r == read_input(argv[k], disk[k])
       IN /\ r.raised # "none"
          /\ outcome' = ArgparseFailure(r.raised, k)
    /\ mpc' = "done"
    /\ UNCHANGED <<argv, writer, debug, disk, inputs, unit, annotated, calls,
                   outfiles, pvars, cvars>>

\* parse_arguments returns; main sets core.DEBUG and enters the loop
parse_returns ==
    /\ mpc = "parse"
    /\ Len(inputs) = Len(argv)
    /\ mpc' = "loop"
    /\ unit' = 1
    /\ UNCHANGED <<argv, writer, debug, disk, inputs, annotated, calls, outfiles,
                   outcome, pvars, cvars>>

\* one iteration of main's loop in which annotate returns: one annotated
\* chunk per chunk; then pp and the writer
main_iteration ==
    /\ mpc = "loop"
    /\ unit <= Len(inputs)
    /\ \E result \in [1..Len(inputs[unit].chunks) -> AnnotatedChunks] :
          LET call == [fn |-> "annotate", unit |-> unit, ok |-> TRUE, result |-> result]
              post == ApplyPP(inputs[unit].pp, result)
          IN IF post.ok
             THEN /\ annotated' = post.value
                  /\ calls' = calls \o <<call, [fn |-> "writer", unit |-> unit,
                                               ok |-> TRUE, result |-> post.value]>>
                  /\ outfiles' =
                        {f \in outfiles : f.path # <<inputs[unit].fname, WRITERS[writer]>>}
                        \cup {[path |-> <<inputs[unit].fname, WRITERS[writer]>>,
                               unit |-> unit, annotated |-> post.value]}
                  /\ unit' = unit + 1
                  /\ UNCHANGED <<outcome, mpc>>
             ELSE \* the assert of split_single_chunk: no ValueError, not caught
                  /\ calls' = Append(calls, call)
                  /\ outcome' = [status |-> "raised", exc |-> "AssertionError",
                                 unit |-> unit]
                  /\ mpc' = "done"
                  /\ UNCHANGED <<annotated, outfiles, unit>>
    /\ UNCHANGED <<argv, writer, debug, disk, inputs, pvars, cvars>>

\* one iteration in which annotate raises ValueError, and the except clause
main_value_error ==
    /\ mpc = "loop"
    /\ unit <= Len(inputs)
    /\ calls' = Append(calls, [fn |-> "annotate", unit |-> unit, ok |-> FALSE,
                               result |-> <<>>])
    /\ LET h == HandleValueError(debug, unit)
       IN mpc' = h.mpc /\ unit' = h.unit /\ outcome' = h.outcome
    /\ UNCHANGED <<argv, writer, debug, disk, inputs, annotated, outfiles,
                   pvars, cvars>>

\* the loop is over: main returns
main_returns ==
    /\ mpc = "loop"
    /\ unit > Len(inputs)
    /\ mpc' = "done"
    /\ outcome' = [status |-> "exit0", exc |-> "none", unit |-> 0]
    /\ UNCHANGED <<argv, writer, debug, disk, inputs, unit, annotated, calls,
                   outfiles, pvars, cvars>>

Next ==
    \/ parse_input
    \/ parse_input_raises
    \/ parse_returns
    \/ main_iteration
    \/ main_value_error
    \/ main_returns

Spec == MInit /\ [][Next]_vars

-----------------------------------------------------------------------------
(* What the claims about partition_fragments speak of, stated without the *)
(* regular expression                                                      *)

IsBlankChar(c) == c \in {" ", "\t", "\n"}

\* the prefix s[1..j] is a blank run: only blanks, a line break last, and at
\* least two line breaks
IsBlankRun(s, j) ==
    /\ s[j] = "\n"
    /\ \A k \in 1..j : IsBlankChar(s[k])
    /\ Cardinality({k \in 1..j : s[k] = "\n"}) >= 2

BeginsBlankRun(s) == \E j \in 1..Len(s) : IsBlankRun(s, j)

\* the length of the leading blank run of s: the longest such prefix
BlankRunLen(s) ==
    CHOOSE j \in 1..Len(s) :
        IsBlankRun(s, j) /\ \A k \in (j + 1)..Len(s) : ~IsBlankRun(s, k)

IsText(f) == f.cls = "CoqText"
TextOf(f) == f.vals[1].v

\* a separator: a Text fragment whose content begins with a blank run
IsSeparator(f) == IsText(f) /\ BeginsBlankRun(TextOf(f))
\* a separator that is nothing but its blank run
IsPureSeparator(f) == IsSeparator(f) /\ BlankRunLen(TextOf(f)) = Len(TextOf(f))

\* what is to be left of one input fragment
Kept(f) ==
    IF ~IsSeparator(f) THEN <<f>>
    ELSE IF IsPureSeparator(f) THEN <<>>
    ELSE <<CoqText(Str(SubSeq(TextOf(f), BlankRunLen(TextOf(f)) + 1, Len(TextOf(f)))))>>

RECURSIVE KeptAll(_)
KeptAll(fs) == IF fs = <<>> THEN <<>> ELSE Kept(Head(fs)) \o KeptAll(Tail(fs))

\* the chunks of p laid end to end
RECURSIVE Flatten(_)
Flatten(p) == IF p = <<>> THEN <<>> ELSE Head(p) \o Flatten(Tail(p))

NonEmptyChunks(p) == Cardinality({i \in 1..Len(p) : p[i] # <<>>})
Separators(fs) == Cardinality({i \in 1..Len(fs) : IsSeparator(fs[i])})
NoneAdjacent(fs) ==
    \A i \in 1..(Len(fs) - 1) : ~(IsSeparator(fs[i]) /\ IsSeparator(fs[i + 1]))

C2_Original ==
    (ppc = "done" /\ NoneAdjacent(fragments) /\ fragments # <<>>)
        => NonEmptyChunks(partitioned) = Separators(fragments) + 1

\* C2 amended: for a non-empty input with k separators, none adjacent, the
\* number of non-empty chunks is k+1, less one when the first fragment is a
\* separator (it opens no chunk) and less one when the last fragment is a
\* separator of which nothing remains (the chunk it opens stays empty).
C2_ChunkCount ==
    (ppc = "done" /\ NoneAdjacent(fragments) /\ fragments # <<>>)
        => NonEmptyChunks(partitioned)
             + (IF IsSeparator(fragments[1]) THEN 1 ELSE 0)
             + (IF IsPureSeparator(fragments[Len(fragments)]) THEN 1 ELSE 0)
           = Separators(fragments) + 1

\* C2 happens: a call has returned on a non-empty input whose separators,
\* none adjacent, are neither its first fragment nor a pure one at its end,
\* and k+1 >= 2 non-empty chunks came out.
C2_Witness ==
    /\ ppc = "done"
    /\ NoneAdjacent(fragments)
    /\ Separators(fragments) >= 1
    /\ ~IsSeparator(fragments[1])
    /\ ~IsPureSeparator(fragments[Len(fragments)])
    /\ NonEmptyChunks(partitioned) = Separators(fragments) + 1

\* C3 as stated: scenario A yields two chunks, the second being the text
\* after the blank run followed by the sentence.
C3_Original ==
    (ppc = "done" /\ fragments = ScenarioA)
        => /\ Len(partitioned) = 2
           /\ partitioned[2] = <<CoqText(Str(StepOne)), TacticSentence>>

\* C3 amended: scenario A yields one chunk, equal to the input, because its
\* blank run does not begin the Text fragment; the same text with a fragment
\* boundary before the blank run yields two chunks, the second being
\* [Text("Step one."), Sentence("tactic.", goals=[])].
C3_ScenarioA ==
    /\ (ppc = "done" /\ fragments = ScenarioA) => partitioned = <<ScenarioA>>
    /\ (ppc = "done" /\ fragments = ScenarioACut)
          => /\ Len(partitioned) = 2
             /\ partitioned[1] = <<ScenarioACut[1]>>
             /\ partitioned[2] = <<CoqText(Str(StepOne)), TacticSentence>>

\* C3 happens: the call on scenario A has returned.
C3_Witness == ppc = "done" /\ fragments = ScenarioA /\ Len(partitioned) = 1

\* C9: when no Text fragment begins with two or more line breaks (each
\* optionally preceded by spaces or tabs), partition_fragments returns one
\* chunk, equal to its input.
C9_SingleLineBreak ==
    (ppc = "done" /\ \A i \in 1..Len(fragments) : ~IsSeparator(fragments[i]))
        => partitioned = <<fragments>>

\* C9 happens: a call has returned on a Text fragment ending in a line break
\* followed by a Text fragment beginning with one line break.
C9_Witness ==
    /\ ppc = "done"
    /\ \A i \in 1..Len(fragments) : ~IsSeparator(fragments[i])
    /\ \E i \in 1..(Len(fragments) - 1) :
          /\ IsText(fragments[i]) /\ IsText(fragments[i + 1])
          /\ TextOf(fragments[i]) # <<>> /\ TextOf(fragments[i + 1]) # <<>>
          /\ TextOf(fragments[i])[Len(TextOf(fragments[i]))] = "\n"
          /\ TextOf(fragments[i + 1])[1] = "\n"

\* C10: after every iteration of the loop and in the result, every chunk of
\* partitioned other than the last is non-empty.
C10_NoEmptyChunkButLast ==
    \A i \in 1..(Len(partitioned) - 1) : partitioned[i] # <<>>

\* C10 happens: a call has returned on an input that has a separator right
\* after another one, after some content.
C10_Witness ==
    /\ ppc = "done"
    /\ \E i \in 1..(Len(fragments) - 2) :
          /\ ~IsSeparator(fragments[i])
          /\ IsSeparator(fragments[i + 1])
          /\ IsSeparator(fragments[i + 2])

-----------------------------------------------------------------------------
(* What the claims about the codec speak of *)

\* the discriminator of each kind of fragment
KindToken(cls) ==
    CASE cls = "CoqText" -> <<"t", "e", "x", "t">>
      [] cls = "CoqSentence" -> <<"s", "e", "n", "t", "e", "n", "c", "e">>
      [] cls = "CoqGoal" -> <<"g", "o", "a", "l">>
      [] cls = "CoqHypothesis" -> <<"h", "y", "p", "o", "t", "h", "e", "s", "i", "s">>

\* e is the encoding of x: a mapping with one entry per field plus "_type"
\* for a fragment, the same list or mapping of encodings for a list or a
\* mapping, x itself for a scalar
RECURSIVE EncodesTo(_, _)
EncodesTo(x, e) ==
    CASE x.t = "namedtuple" ->
            /\ e.t = "dict"
            /\ DOMAIN e.v = {"_type"} \cup {x.fields[i] : i \in 1..Len(x.fields)}
            /\ Cardinality(DOMAIN e.v) = Len(x.fields) + 1
            /\ e.v["_type"] = Str(KindToken(x.cls))
            /\ \A i \in 1..Len(x.fields) : EncodesTo(x.vals[i], e.v[x.fields[i]])
      [] x.t = "list" ->
            /\ e.t = "list"
            /\ Len(e.v) = Len(x.v)
            /\ \A i \in 1..Len(x.v) : EncodesTo(x.v[i], e.v[i])
      [] x.t = "dict" ->
            /\ e.t = "dict"
            /\ DOMAIN e.v = DOMAIN x.v
            /\ \A k \in DOMAIN x.v : EncodesTo(x.v[k], e.v[k])
      [] OTHER -> e = x

\* a fragment record occurs somewhere in x
RECURSIVE HasFragment(_)
HasFragment(x) ==
    CASE x.t = "namedtuple" -> TRUE
      [] x.t = "list" -> \E i \in 1..Len(x.v) : HasFragment(x.v[i])
      [] x.t = "dict" -> \E k \in DOMAIN x.v : HasFragment(x.v[k])
      [] OTHER -> FALSE

\* the nesting depth of fragments in x
RECURSIVE Nesting(_)
Nesting(x) ==
    LET Max(S) == IF S = {} THEN 0 ELSE CHOOSE n \in S : \A m \in S : m <= n
    IN CASE x.t = "namedtuple" -> 1 + Max({Nesting(x.vals[i]) : i \in 1..Len(x.vals)})
         [] x.t = "list" -> Max({Nesting(x.v[i]) : i \in 1..Len(x.v)})
         [] x.t = "dict" -> Max({Nesting(x.v[k]) : k \in DOMAIN x.v})
         [] OTHER -> 0

C5_EncodingShape ==
    /\ cpc # "start" => EncodesTo(obj, encoded) /\ ~HasFragment(encoded)
    /\ \A c1, c2 \in COQ_TYPES :
          /\ COQ_TYPE_NAMES[c1] = Str(KindToken(c1))
          /\ c1 # c2 => COQ_TYPE_NAMES[c1] # COQ_TYPE_NAMES[c2]

\* C5 happens: a chunk sequence holding a sentence with a goal with a
\* hypothesis (fragments nested three deep inside two lists) has been encoded.
C5_Witness ==
    /\ cpc = "written"
    /\ obj.t = "list"
    /\ Nesting(obj) = 3

-----------------------------------------------------------------------------
(* What the claims about main speak of *)

BadExtension(k) == argv[k].ext \notin {".v", ".json"}
\* read_input cannot return for unit k
Unreadable(k) == BadExtension(k) \/ disk[k].state # "ok"
FirstUnreadable ==
    CHOOSE k \in 1..Len(argv) : Unreadable(k) /\ \A j \in 1..(k - 1) : ~Unreadable(j)

WriterCalls == {i \in 1..Len(calls) : calls[i].fn = "writer"}
FailedCalls == {i \in 1..Len(calls) : ~calls[i].ok}

\* C6: the chunk sequence handed to the writer for a unit is what annotate
\* returned for it, unchanged, when the unit is a .json file, and
\* partition_fragments of the single chunk annotate returned when it is a .v
\* file.
C6_RepartitionOnlyRaw ==
    \A i \in WriterCalls :
        /\ i > 1
        /\ calls[i - 1].fn = "annotate" /\ calls[i - 1].ok
        /\ calls[i - 1].unit = calls[i].unit
        /\ argv[calls[i].unit].ext = ".json"
              => calls[i].result = calls[i - 1].result
        /\ argv[calls[i].unit].ext = ".v"
              => /\ Len(calls[i - 1].result) = 1
                 /\ calls[i].result = partition_fragments(calls[i - 1].result[1])

\* C6 happens: in one run the writer was given a .json unit whose chunks
\* hold blank runs and a .v unit whose chunk was split.
C6_Witness ==
    /\ \E i \in WriterCalls :
          /\ argv[calls[i].unit].ext = ".json"
          /\ \E c \in 1..Len(calls[i].result) : calls[i].result[c] = TrailingSeparator
    /\ \E i \in WriterCalls :
          /\ argv[calls[i].unit].ext = ".v"
          /\ Len(calls[i].result) >= 2

\* C7: when annotate fails with a ValueError for unit i, nothing is called
\* after it, no writer has run for unit i or a later one, no file was made
\* for them, and the run is over: the error re-raised under --debug, the
\* message printed and exit status 1 otherwise.
C7_OracleFailureStops ==
    \A i \in FailedCalls :
        /\ i = Len(calls)
        /\ mpc = "done"
        /\ outcome = [status |-> IF debug THEN "raised" ELSE "exit1",
                      exc |-> "ValueError", unit |-> calls[i].unit]
        /\ \A j \in WriterCalls : calls[j].unit < calls[i].unit
        /\ \A f \in outfiles : f.unit < calls[i].unit

\* C7 happens: annotate has failed for the second unit after the first was
\* written.
C7_Witness ==
    /\ \E i \in FailedCalls : calls[i].unit = 2
    /\ outfiles # {}
    /\ Len(argv) >= 2

\* C8 as stated: for every unit with another extension, the run ends while
\* the arguments are read with the error naming that unit, before any call
\* of annotate or of a writer.
C8_Original ==
    \A k \in 1..Len(argv) :
        BadExtension(k) =>
            /\ calls = <<>> /\ outfiles = {}
            /\ mpc = "done" => outcome.status \in {"exit2", "raised"} /\ outcome.unit = k

\* C8 amended: when some unit has another extension, the run ends while the
\* arguments are read, before any call of annotate or of a writer, with the
\* error of the first unit that cannot be read; that is the usage error
\* naming the unit with the bad extension when it is the first such unit and
\* its file can be opened.
C8_InputErrorsFirst ==
    (\E k \in 1..Len(argv) : BadExtension(k)) =>
        /\ calls = <<>> /\ outfiles = {}
        /\ mpc \in {"parse", "done"}
        /\ mpc = "done" =>
              /\ outcome.status \in {"exit2", "raised"}
              /\ outcome.unit = FirstUnreadable
              /\ (BadExtension(FirstUnreadable) /\ disk[FirstUnreadable].state # "missing")
                    => outcome = [status |-> "exit2", exc |-> "ArgumentTypeError",
                                  unit |-> FirstUnreadable]

\* C8 happens: the run has ended on a unit with another extension that
\* follows a valid unit.
C8_Witness ==
    /\ mpc = "done"
    /\ Len(argv) = 2
    /\ ~Unreadable(1)
    /\ BadExtension(2)
    /\ outcome.exc = "ArgumentTypeError"

====
